---- MODULE Spec2Model ----
(***************************************************************************)
(* HangAI (src/hangai.py): the recommendation pipeline of a session.       *)
(* Geocoding with retry, per-mood point-of-interest fetch with retry and   *)
(* cache, cross-mood aggregation, the user profile (history, favorites,    *)
(* usage counters) with its persisted file, and the cache file written at  *)
(* exit and loaded by the next run.                                        *)
(*                                                                         *)
(* Coordinates are fixed-point integers in units of 0.00001 degree, so     *)
(* that round(x, 4) is a rounding to the nearest multiple of 10.           *)
(* Python dicts and lists are modelled as functions and sequences.         *)
(***************************************************************************)
EXTENDS Integers, Sequences, FiniteSets, TLC

(***************************************************************************)
(* Program constants                                                       *)
(***************************************************************************)
DEFAULT_SEARCH_RADIUS_M == 2500
MAX_HISTORY_SIZE == 50

\* MOOD_TAGS_EXTENDED: the moods in dict order, and each mood's (key, value) tags.
MOODS == <<"happy", "sad", "adventurous">>

MoodSet == {MOODS[n] : n \in 1..Len(MOODS)}

MOOD_TAGS_EXTENDED ==
    [m \in MoodSet |->
        CASE m = "happy" -> << <<"amenity", "cafe">>, <<"amenity", "restaurant">>,
                               <<"bar", "yes">>, <<"shop", "bakery">> >>
          [] m = "sad" -> << <<"leisure", "park">>, <<"amenity", "library">>,
                             <<"place_of_worship", "church">> >>
          [] OTHER -> << <<"leisure", "amusement_park">>, <<"sport", "climbing">>,
                         <<"leisure", "sports_centre">> >>]

\* retries of retry_geocode and of the request loop of fetch_overpass
GEOCODE_RETRIES == 5
GEOCODE_INITIAL_DELAY == 2
FETCH_RETRIES == 3

(***************************************************************************)
(* Bounds of the model                                                     *)
(***************************************************************************)
\* menu choices handled, and starts of the program after the first
MaxOps == 2
\* history appends of the history-only specification
MaxAppends == 104

\* Values that stand for Python's None / a missing file / a missing dict key.
None == "None"

\* Resolved locations the geocoder can return, in units of 0.00001 degree.
\* 4 and 6 are 0.00002 degree apart and round differently; 6 and 14 round alike.
GeoResults == {<<4, 200>>, <<6, 200>>, <<14, 200>>}

\* What the address typed at the location prompt resolves to.
StartResults == {<<6, 200>>}

\* Tag dicts of elements.
TagsCafe == [amenity |-> "cafe"]
TagsPark == [leisure |-> "park"]
TagsLibrary == [amenity |-> "library"]
TagsClimb == [sport |-> "climbing"]

\* Elements of provider responses: name None when the name tag is absent;
\* lat/lon 0 when the element has no own coordinate, center 0 when it has no
\* center (0 and None are both falsy for the "or" and the "if" of the code).
Elem(name, lat, lon, clat, clon, tags) ==
    [name |-> name, lat |-> lat, lon |-> lon, clat |-> clat, clon |-> clon, tags |-> tags]

\* What the provider has for each mood's query, in provider order.
World ==
    [m \in MoodSet |->
        CASE m = "happy" -> << Elem("Central Perk", 100, 200, 0, 0, TagsCafe),
                               Elem("Bakery", 40, 200, 0, 0, [shop |-> "bakery"]) >>
          [] m = "sad" -> << Elem("City Library", 0, 0, 70, 200, TagsLibrary),
                             Elem("Central Perk", 30, 200, 0, 0, TagsPark) >>
          [] OTHER -> << Elem(None, 90, 200, 0, 0, TagsClimb),
                         Elem(None, 0, 0, 20, 200, TagsClimb),
                         Elem("Ghost", 0, 0, 0, 0, TagsClimb) >>]

\* A successful response: the matching elements, or none.
ProviderResponses(mood) == {World[mood], <<>>}

\* Free-text mood descriptions: the mood names occurring in the lowered text and
\* the sentiment polarity of the text, times 10.
Texts == { [names |-> {"sad"}, polarity |-> 0],
           [names |-> {}, polarity |-> 5] }

\* Selection inputs of manual_mood_selection, as token lists after lower(),
\* replace(',', ' ') and split().
Selections == { <<>>, <<"sad", "1">>, <<"3", "9", "x">> }

\* Radius inputs: the empty input and "1" (km).
RadiusInputs == {"", "1"}

\* Iteration orders of a set of mood strings (the string hash order of the process).
HashOrders == { <<"happy", "sad", "adventurous">>, <<"adventurous", "sad", "happy">> }

(***************************************************************************)
(* Pure helpers                                                            *)
(***************************************************************************)
Abs(x) == IF x < 0 THEN -x ELSE x

Range(s) == {s[n] : n \in 1..Len(s)}

\* list(set(...)): the members of S in the process's hash order.
RECURSIVE ListOfSet(_, _)
ListOfSet(S, order) ==
    IF order = <<>> THEN <<>>
    ELSE IF Head(order) \in S THEN <<Head(order)>> \o ListOfSet(S, Tail(order))
    ELSE ListOfSet(S, Tail(order))

\* round(x, 4) of a coordinate in units of 0.00001 degree: nearest multiple of
\* 10, an exact tie to the even multiple.
round4(x) ==
    LET q == x \div 10
        r == x % 10
    IN  IF r < 5 THEN 10 * q
        ELSE IF r > 5 THEN 10 * (q + 1)
        ELSE IF q % 2 = 0 THEN 10 * q ELSE 10 * (q + 1)

\* The key without the rounding of the coordinates.
cache_key_unrounded(coords, mood, radius_m) == <<coords[1], coords[2], mood, radius_m>>

cache_key(coords, mood, radius_m) ==
    <<round4(coords[1]), round4(coords[2]), mood, radius_m>>

\* geodesic(coords, (lat_p, lon_p)).km
geodesic(coords, lat_p, lon_p) == Abs(coords[1] - lat_p) + Abs(coords[2] - lon_p)

\* x or y
Or(x, y) == IF x # 0 THEN x ELSE y

\* list.sort(key=distance) / sorted(..., key=distance): stable.
RECURSIVE InsertByDistance(_, _)
InsertByDistance(p, s) ==
    IF s = <<>> THEN <<p>>
    ELSE IF p.distance < s[Len(s)].distance
         THEN InsertByDistance(p, SubSeq(s, 1, Len(s) - 1)) \o <<s[Len(s)]>>
         ELSE s \o <<p>>

\* The list left in provider order.
SortByDistance_skipped(s) == s

RECURSIVE SortByDistance(_)
SortByDistance(s) ==
    IF s = <<>> THEN <<>>
    ELSE InsertByDistance(s[Len(s)], SortByDistance(SubSeq(s, 1, Len(s) - 1)))

\* The places of a response (lines 159-168 of fetch_overpass).
RECURSIVE PlacesOf(_, _)
PlacesOf(coords, elements) ==
    IF elements = <<>> THEN <<>>
    ELSE LET el == Head(elements)
             name == IF el.name = None THEN "Unnamed" ELSE el.name
             lat_p == Or(el.lat, el.clat)
             lon_p == Or(el.lon, el.clon)
             rest == PlacesOf(coords, Tail(elements))
         IN  IF lat_p # 0 /\ lon_p # 0
             THEN << [name |-> name, lat |-> lat_p, lon |-> lon_p,
                      distance |-> geodesic(coords, lat_p, lon_p),
                      tags |-> el.tags] >> \o rest
             ELSE rest

ParsePlaces(coords, elements) == SortByDistance(PlacesOf(coords, elements))

\* MoodInPlace(place_tags, mood)
MoodInPlace(place_tags, mood) ==
    \E n \in 1..Len(MOOD_TAGS_EXTENDED[mood]) :
        LET key == MOOD_TAGS_EXTENDED[mood][n][1]
            val == MOOD_TAGS_EXTENDED[mood][n][2]
        IN  key \in DOMAIN place_tags /\ place_tags[key] = val

(***************************************************************************)
(* Python dict and list operations                                         *)
(***************************************************************************)
EmptyDict == << >>

\* d.get(k, default)
DictGet(d, k, default) == IF k \in DOMAIN d THEN d[k] ELSE default

\* d[k] = v
DictSet(d, k, v) == [x \in (DOMAIN d) \cup {k} |-> IF x = k THEN v ELSE d[x]]

\* list(d.keys()) of a dict keyed by moods. The insertion order of the keys is
\* not kept by the model: the keys are listed in catalogue order. Every use of
\* the list lets the user pick any position of it.
RECURSIVE KeysIn(_, _)
KeysIn(d, order) ==
    IF order = <<>> THEN <<>>
    ELSE IF Head(order) \in DOMAIN d THEN <<Head(order)>> \o KeysIn(d, Tail(order))
    ELSE KeysIn(d, Tail(order))

DictKeys(d) == KeysIn(d, MOODS)

\* [x for x in s if Keep(x)]
RECURSIVE FilterNameNot(_, _)
FilterNameNot(s, name) ==
    IF s = <<>> THEN <<>>
    ELSE IF Head(s).name # name THEN <<Head(s)>> \o FilterNameNot(Tail(s), name)
    ELSE FilterNameNot(Tail(s), name)

\* s[idx] of Python: a negative index counts from the end; the result is a
\* one-element sequence, or the empty sequence for an IndexError.
PyIndex(s, idx) ==
    IF 0 <= idx /\ idx < Len(s) THEN <<s[idx + 1]>>
    ELSE IF idx < 0 /\ -idx <= Len(s) THEN <<s[Len(s) + idx + 1]>>
    ELSE <<>>

(***************************************************************************)
(* Profile and usage handling                                              *)
(***************************************************************************)
EmptyProfile ==
    [history |-> <<>>, favorites |-> EmptyDict, mood_usage |-> EmptyDict,
     place_usage |-> EmptyDict]

\* A persisted file: absent, or holding the JSON object last dumped (content),
\* or left by something else with text that is no JSON, or with a JSON array.
MissingFile == [exists |-> FALSE]

UnparseableFile == [exists |-> TRUE, text |-> "garbage"]

ArrayFile == [exists |-> TRUE, array |-> <<>>]

\* json.load raises JSONDecodeError on the file.
JSONDecodeError(file) == "text" \in DOMAIN file

\* The value json.load parsed is a list, not a dict.
IsList(doc) == "array" \in DOMAIN doc

\* json.load(f): the JSON array as a list, the JSON object as a dict.
json_load(file) == IF "array" \in DOMAIN file THEN [array |-> file.array] ELSE file.content

\* Lines 62-67: the default on FileNotFoundError and JSONDecodeError, and
\* whatever json.load parsed otherwise.
load_user_profile(file) ==
    IF ~file.exists \/ JSONDecodeError(file) THEN EmptyProfile ELSE json_load(file)

\* The file after save_user_profile(profile).
save_user_profile(profile) == [exists |-> TRUE, content |-> profile]

\* The counters started anew at each call.
update_usage_counters_forgets(profile, mood, place_name) ==
    [profile EXCEPT
        !.mood_usage = DictSet(EmptyDict, mood, 1),
        !.place_usage = DictSet(EmptyDict, place_name, 1)]

\* Lines 73-77.
update_usage_counters(profile, mood, place_name) ==
    [profile EXCEPT
        !.mood_usage = DictSet(@, mood, DictGet(@, mood, 0) + 1),
        !.place_usage = DictSet(@, place_name, DictGet(@, place_name, 0) + 1)]

\* save_history keeping the first MAX_HISTORY_SIZE entries instead of the last.
save_history_keeps_oldest(profile, entry) ==
    LET h == Append(profile.history, entry)
    IN  [profile EXCEPT !.history =
            IF Len(h) > MAX_HISTORY_SIZE THEN SubSeq(h, 1, MAX_HISTORY_SIZE) ELSE h]

\* save_history, lines 230-232: the profile after the append and the truncation.
save_history(profile, entry) ==
    LET h == Append(profile.history, entry)
    IN  [profile EXCEPT !.history =
            IF Len(h) > MAX_HISTORY_SIZE
            THEN SubSeq(h, Len(h) - MAX_HISTORY_SIZE + 1, Len(h))
            ELSE h]

\* remove_favorite(profile, mood, place_name) on the dict it is handed: the
\* dict after the call, and whether save_user_profile was called on it.
remove_favorite(d, mood, place_name) ==
    IF mood \in DOMAIN DictGet(d, "favorites", EmptyDict)
    THEN [obj |-> [d EXCEPT !["favorites"] =
                      DictSet(@, mood, FilterNameNot(@[mood], place_name))],
          saved |-> TRUE]
    ELSE [obj |-> d, saved |-> FALSE]

\* select_favorite_place(favorites) for the inputs mood_choice, place_choice and
\* rem_choice (integers; a non-numeric input takes the same path as 0 does
\* through the except branch). sel is <<>> for None, else <<mood, name>>;
\* removal is what the call of remove_favorite returned, or <<>>.
select_favorite_place(favorites, mood_choice, place_choice, rem_choice) ==
    LET moods == DictKeys(favorites)
        picked == PyIndex(moods, mood_choice - 1)
        NoSel == [sel |-> <<>>, removal |-> <<>>]
    IN  IF DOMAIN favorites = {} \/ mood_choice = 0 \/ picked = <<>> THEN NoSel
        ELSE LET selected_mood == picked[1]
                 places == favorites[selected_mood]
             IN  IF place_choice = 0 THEN NoSel
                 ELSE IF place_choice = -1
                 THEN IF 1 <= rem_choice /\ rem_choice <= Len(places)
                      THEN [sel |-> <<>>,
                            removal |-> <<remove_favorite(favorites, selected_mood,
                                                          places[rem_choice].name)>>]
                      ELSE NoSel
                 ELSE IF 1 <= place_choice /\ place_choice <= Len(places)
                 THEN [sel |-> <<selected_mood, places[place_choice].name>>,
                       removal |-> <<>>]
                 ELSE NoSel

(***************************************************************************)
(* Mood detection                                                          *)
(***************************************************************************)
\* detect_moods_from_text on a text with the given mood names and polarity (x10).
detect_moods_from_text(text, order) ==
    LET moods == IF text.names # {} THEN text.names
                 ELSE IF text.polarity > 4 THEN {"happy"}
                 ELSE IF text.polarity < -2 THEN {"sad"}
                 ELSE {"adventurous"}
    IN  ListOfSet(moods, order)

IsDigit(token) == token \in {"1", "2", "3", "9"}

IntOf(token) == CASE token = "1" -> 1 [] token = "2" -> 2 [] token = "3" -> 3 [] OTHER -> 9

\* The set built by the token loop of manual_mood_selection.
RECURSIVE SelectedSet(_, _)
SelectedSet(tokens, available_moods) ==
    IF tokens = <<>> THEN {}
    ELSE LET token == Head(tokens)
             rest == SelectedSet(Tail(tokens), available_moods)
         IN  IF IsDigit(token)
             THEN IF 0 <= IntOf(token) - 1 /\ IntOf(token) - 1 < Len(available_moods)
                  THEN {available_moods[IntOf(token)]} \cup rest
                  ELSE rest
             ELSE IF token \in Range(available_moods) THEN {token} \cup rest
             ELSE rest

\* manual_mood_selection(available_moods) for the given tokens of the input.
manual_mood_selection(available_moods, tokens, order) ==
    IF tokens = <<>> THEN SubSeq(available_moods, 1, 1)
    ELSE LET selected == SelectedSet(tokens, available_moods)
         IN  IF selected # {} THEN ListOfSet(selected, order)
             ELSE SubSeq(available_moods, 1, 1)

\* int(float(radius_input) * 1000) if radius_input else DEFAULT_SEARCH_RADIUS_M
RadiusOf(radius_input) ==
    IF radius_input = "" THEN DEFAULT_SEARCH_RADIUS_M
    ELSE IF radius_input = "1" THEN 1000
    ELSE DEFAULT_SEARCH_RADIUS_M

(***************************************************************************)
(* Aggregation (lines 314-318 of main)                                     *)
(***************************************************************************)
\* The dedup loop without the distance comparison: the first entry of a name stays.
RECURSIVE UniquePlaces_first_wins(_, _)
UniquePlaces_first_wins(all_places, unique) ==
    IF all_places = <<>> THEN unique
    ELSE IF \E n \in 1..Len(unique) : unique[n].name = Head(all_places).name
         THEN UniquePlaces_first_wins(Tail(all_places), unique)
         ELSE UniquePlaces_first_wins(Tail(all_places), Append(unique, Head(all_places)))

\* unique_places after the loop, as its values in key insertion order.
RECURSIVE UniquePlaces(_, _)
UniquePlaces(all_places, unique) ==
    IF all_places = <<>> THEN unique
    ELSE LET p == Head(all_places)
             at == {n \in 1..Len(unique) : unique[n].name = p.name}
         IN  IF at = {} THEN UniquePlaces(Tail(all_places), Append(unique, p))
             ELSE LET n == CHOOSE n \in at : TRUE
                  IN  IF p.distance < unique[n].distance
                      THEN UniquePlaces(Tail(all_places), [unique EXCEPT ![n] = p])
                      ELSE UniquePlaces(Tail(all_places), unique)

Combine(all_places) == SortByDistance(UniquePlaces(all_places, <<>>))

\* The scan without the "already a favorite" test of line 334.
RECURSIVE FirstNewFavorite_unchecked(_, _, _)
FirstNewFavorite_unchecked(places, mood, fav_list) ==
    IF places = <<>> THEN <<>>
    ELSE IF MoodInPlace(Head(places).tags, mood) THEN <<Head(places)>>
    ELSE FirstNewFavorite_unchecked(Tail(places), mood, fav_list)

\* Lines 331-337 of main for one mood: the profile after the setdefault, the
\* scan of combined_places and the first insertion.
RECURSIVE FirstNewFavorite(_, _, _)
FirstNewFavorite(places, mood, fav_list) ==
    IF places = <<>> THEN <<>>
    ELSE IF MoodInPlace(Head(places).tags, mood)
            /\ ~ \E n \in 1..Len(fav_list) : fav_list[n].name = Head(places).name
         THEN <<Head(places)>>
         ELSE FirstNewFavorite(Tail(places), mood, fav_list)

\* The mood counted at every pass of the loop, a favorite added or not.
UpdateFavorites_counts_every_pass(profile, mood, combined_places) ==
    LET fav_list == DictGet(profile.favorites, mood, <<>>)
        new == FirstNewFavorite(combined_places, mood, fav_list)
        counted == [profile EXCEPT !.mood_usage = DictSet(@, mood, DictGet(@, mood, 0) + 1)]
    IN  IF new = <<>>
        THEN [counted EXCEPT !.favorites = DictSet(@, mood, fav_list)]
        ELSE [counted EXCEPT
                !.favorites = DictSet(@, mood, Append(fav_list,
                                  [name |-> new[1].name, tags |-> new[1].tags])),
                !.place_usage = DictSet(@, new[1].name, DictGet(@, new[1].name, 0) + 1)]

UpdateFavorites(profile, mood, combined_places) ==
    LET fav_list == DictGet(profile.favorites, mood, <<>>)
        new == FirstNewFavorite(combined_places, mood, fav_list)
    IN  IF new = <<>>
        THEN [profile EXCEPT !.favorites = DictSet(@, mood, fav_list)]
        ELSE update_usage_counters(
                 [profile EXCEPT !.favorites =
                     DictSet(@, mood, Append(fav_list,
                                 [name |-> new[1].name, tags |-> new[1].tags]))],
                 mood, new[1].name)

(***************************************************************************)
(* The cache file: str(k) -> v for every entry. The text of a key is kept  *)
(* as the digits and characters of its fields; json.dump and json.load     *)
(* keep the lists, dicts, strings and numbers of the values as they are.   *)
(***************************************************************************)
\* The decimal digits of a natural number, most significant first, and back.
RECURSIVE Digits(_)
Digits(n) == IF n < 10 THEN <<n>> ELSE Append(Digits(n \div 10), n % 10)

RECURSIVE NatOf(_)
NatOf(ds) == IF ds = <<>> THEN 0 ELSE 10 * NatOf(SubSeq(ds, 1, Len(ds) - 1)) + ds[Len(ds)]

RECURSIVE Pow10(_)
Pow10(n) == IF n = 0 THEN 1 ELSE 10 * Pow10(n - 1)

RECURSIVE StripZeros(_)
StripZeros(ds) ==
    IF Len(ds) > 1 /\ ds[Len(ds)] = 0 THEN StripZeros(SubSeq(ds, 1, Len(ds) - 1)) ELSE ds

\* The text of a float cut after three fractional digits.
repr_float_3_decimals(x) ==
    LET a == Abs(x)
    IN  [kind |-> "float", neg |-> x < 0, whole |-> Digits(a \div 100000),
         frac |-> StripZeros([j \in 1..3 |-> ((a % 100000) \div Pow10(5 - j)) % 10])]

\* repr of a float holding x units of 0.00001: sign, integer digits, and the
\* fractional digits without trailing zeros ("12.9716", "6.0").
repr_float(x) ==
    LET a == Abs(x)
    IN  [kind |-> "float", neg |-> x < 0, whole |-> Digits(a \div 100000),
         frac |-> StripZeros([j \in 1..5 |-> ((a % 100000) \div Pow10(5 - j)) % 10])]

repr_str(x) == [kind |-> "str", chars |-> x]

repr_int(x) == [kind |-> "int", neg |-> x < 0, digits |-> Digits(Abs(x))]

\* str(k) of a key tuple: the text of each field, in order. The first two
\* fields of a key are floats, the third a string, the fourth an int.
str(k) ==
    [n \in 1..Len(k) |->
        IF n <= 2 THEN repr_float(k[n]) ELSE IF n = 3 THEN repr_str(k[n]) ELSE repr_int(k[n])]

\* The value of one field of a tuple expression.
literal_eval(t) ==
    CASE t.kind = "float" ->
            (IF t.neg THEN -1 ELSE 1)
                * (100000 * NatOf(t.whole) + NatOf(t.frac) * Pow10(5 - Len(t.frac)))
      [] t.kind = "str" -> t.chars
      [] OTHER -> (IF t.neg THEN -1 ELSE 1) * NatOf(t.digits)

\* eval(s) raises NameError: a field of the text is a bare word.
NameError(s) == \E n \in 1..Len(s) : s[n].kind = "name"

\* eval(s) of the text of a tuple.
eval(s) == [n \in 1..Len(s) |-> literal_eval(s[n])]

save_cache(cache) ==
    [exists |-> TRUE,
     content |-> [s \in {str(k) : k \in DOMAIN cache} |->
                     cache[CHOOSE k \in DOMAIN cache : str(k) = s]]]

\* Lines 49-56: CACHE after load_cache, and whether an exception escaped it.
\* FileNotFoundError and JSONDecodeError are caught; tmp.items() of a list
\* raises AttributeError and eval of a bare word NameError, and CACHE then
\* stays the {} of line 42.
load_cache(file) ==
    IF ~file.exists \/ JSONDecodeError(file)
    THEN [raised |-> FALSE, CACHE |-> EmptyDict]
    ELSE IF "array" \in DOMAIN file
    THEN [raised |-> TRUE, CACHE |-> EmptyDict]
    ELSE LET tmp == file.content
         IN  IF \E s \in DOMAIN tmp : NameError(s)
             THEN [raised |-> TRUE, CACHE |-> EmptyDict]
             ELSE [raised |-> FALSE,
                   CACHE |-> [k \in {eval(s) : s \in DOMAIN tmp} |->
                                 tmp[CHOOSE s \in DOMAIN tmp : eval(s) = k]]]

(***************************************************************************)
(* State                                                                   *)
(***************************************************************************)
VARIABLES
    pc,           \* where main is: "start", "geocode", "menu", "fetch", "request",
                  \* "aggregate", "history", "favorites", "show", "favshow", "loop",
                  \* "done" after the exit, "crashed" after an uncaught exception
    choice,       \* the menu choice being handled, "" at the menu prompt
    flow,         \* the handler running: "none", "search", "repeat", "favorite"
    ops,          \* menu choices handled and restarts so far
    hash_order,   \* the process's iteration order of a set of mood strings
    clock,        \* datetime.now(), counted in history appends
    profile,      \* the in-memory profile
    profile_file, \* MEMORY_FILE
    CACHE,        \* the in-memory cache
    cache_file,   \* CACHE_FILE
    user_loc,     \* the session's coordinates, <<>> while None
    g_for,        \* retry_geocode's caller: "start" or "favorite"
    g_attempt,    \* retry_geocode: attempt
    delay,        \* retry_geocode: delay
    sleeps,       \* the time.sleep calls of the running retry loop, in order
    user_input,   \* the mood description of the running search
    moods,        \* the mood list of the running handler
    radius_m,
    coords,       \* the coordinates of the running handler's fetches
    i,            \* position in the mood loop (fetch loop, then favorites loop)
    attempt,      \* fetch_overpass: attempt
    requests,     \* requests.get calls of the running fetch_overpass call
    ret,          \* what the last fetch_overpass call returned
    all_places,   \* the concatenated fetch results of the running handler
    combined_places,
    shown         \* the last list handed to display_places_table and create_map

profileVars == <<profile, profile_file, clock>>
cacheVars == <<CACHE, cache_file>>
geoVars == <<g_for, g_attempt, delay>>
handlerVars == <<choice, flow, user_input, moods, radius_m, coords, i, all_places, combined_places>>
fetchVars == <<attempt, requests, ret>>

vars == <<pc, ops, hash_order, user_loc, sleeps, shown, profileVars, cacheVars,
          geoVars, handlerVars, fetchVars>>

NotShown == [flow |-> "none", places |-> <<>>]

\* The values the handler's locals have when no handler runs.
IdleHandler ==
    /\ choice' = ""
    /\ flow' = "none"
    /\ user_input' = [names |-> {}, polarity |-> 0]
    /\ moods' = <<>>
    /\ radius_m' = DEFAULT_SEARCH_RADIUS_M
    /\ coords' = <<>>
    /\ i' = 0
    /\ all_places' = <<>>
    /\ combined_places' = <<>>

IdleFetch ==
    /\ attempt' = 0
    /\ requests' = 0
    /\ ret' = <<>>
    /\ sleeps' = <<>>

\* First run: no profile file, no cache file; main has loaded both.
Init ==
    /\ pc = "start"
    /\ choice = ""
    /\ flow = "none"
    /\ ops = 0
    /\ hash_order \in HashOrders
    /\ clock = 0
    /\ profile_file = MissingFile
    /\ profile = load_user_profile(MissingFile)
    /\ CACHE = EmptyDict
    /\ cache_file = MissingFile
    /\ user_loc = <<>>
    /\ g_for = "start"
    /\ g_attempt = 0
    /\ delay = 0
    /\ sleeps = <<>>
    /\ user_input = [names |-> {}, polarity |-> 0]
    /\ moods = <<>>
    /\ radius_m = DEFAULT_SEARCH_RADIUS_M
    /\ coords = <<>>
    /\ i = 0
    /\ attempt = 0
    /\ requests = 0
    /\ ret = <<>>
    /\ all_places = <<>>
    /\ combined_places = <<>>
    /\ shown = NotShown

\* An exception nothing catches ends the process with a traceback; save_cache
\* still runs at interpreter exit (line 58).
Traceback ==
    /\ pc' = "crashed"
    /\ cache_file' = save_cache(CACHE)

(***************************************************************************)
(* retry_geocode                                                           *)
(***************************************************************************)
\* The call of retry_geocode: lines 81-83.
CallGeocode(caller) ==
    /\ pc' = "geocode"
    /\ g_for' = caller
    /\ g_attempt' = 1
    /\ delay' = GEOCODE_INITIAL_DELAY
    /\ sleeps' = <<>>

\* Line 286-287: the location prompt.
EnterLocation ==
    /\ pc = "start"
    /\ CallGeocode("start")
    /\ UNCHANGED <<ops, hash_order, user_loc, shown, profileVars, cacheVars,
                   handlerVars, fetchVars>>

\* An attempt that finds the location: lines 86-88, and the caller's next step.
GeocodeFound ==
    /\ pc = "geocode"
    /\ \E location \in (IF g_for = "start" THEN StartResults ELSE GeoResults) :
        IF g_for = "start"
        THEN /\ user_loc' = location
             /\ pc' = "menu"
             /\ UNCHANGED <<handlerVars, fetchVars>>
        ELSE \* lines 371-373: fetch around the favorite's coordinates
             /\ coords' = location
             /\ radius_m' = DEFAULT_SEARCH_RADIUS_M
             /\ i' = 1
             /\ pc' = "fetch"
             /\ UNCHANGED <<user_loc, choice, flow, user_input, moods, all_places,
                            combined_places, fetchVars>>
    /\ g_attempt' = 0
    /\ delay' = 0
    /\ UNCHANGED <<ops, hash_order, sleeps, shown, profileVars, cacheVars, g_for>>

\* An attempt that finds nothing or raises: lines 89-94, and lines 95-96 after
\* the last attempt.
GeocodeFail ==
    /\ pc = "geocode"
    /\ sleeps' = Append(sleeps, delay)
    /\ IF g_attempt < GEOCODE_RETRIES
       THEN /\ g_attempt' = g_attempt + 1
            /\ delay' = delay * 2
            /\ UNCHANGED <<pc, handlerVars>>
       ELSE /\ g_attempt' = 0
            /\ delay' = 0
            /\ IF g_for = "start"
               THEN pc' = "start" /\ UNCHANGED handlerVars
               ELSE pc' = "loop" /\ UNCHANGED handlerVars
    /\ UNCHANGED <<ops, hash_order, user_loc, shown, profileVars, cacheVars,
                   g_for, fetchVars>>

(***************************************************************************)
(* fetch_overpass                                                          *)
(***************************************************************************)
\* A hit that looks the list up under the key without its radius.
fetch_hit_wrong_key(cache, key) == DictGet(cache, <<key[1], key[2], key[3]>>, <<>>)

\* Line 135: the value returned on a hit.
fetch_hit(cache, key) == cache[key]

\* The places stored only when there are any.
fetch_success_skips_empty(cache, key, at, elements) ==
    LET places == ParsePlaces(at, elements)
    IN  [ret |-> places,
         cache |-> IF places = <<>> THEN cache ELSE DictSet(cache, key, places)]

\* Lines 159-170: the places of a successful response, stored and returned.
fetch_success(cache, key, at, elements) ==
    LET places == ParsePlaces(at, elements)
    IN  [ret |-> places, cache |-> DictSet(cache, key, places)]

\* The failure path storing the empty list under the key.
fetch_exhausted_poisons(cache, key) == [ret |-> <<>>, cache |-> DictSet(cache, key, <<>>)]

\* Lines 156-158: data is None after the last attempt.
fetch_exhausted(cache, key) == [ret |-> <<>>, cache |-> cache]

\* A wait growing by one second per attempt.
Pow2_plus_one(n) == n + 1

\* 2 ** attempt
Pow2(n) == IF n = 1 THEN 2 ELSE IF n = 2 THEN 4 ELSE 8

CurrentKey == cache_key(coords, moods[i], radius_m)

\* The caller's step on the value v returned by fetch_overpass: lines 311-312
\* of the search, 358-359 of the repeated search, 373 of the favorites flow.
Return(v) ==
    /\ ret' = v
    /\ all_places' = IF flow = "favorite" THEN v ELSE all_places \o v
    /\ IF i < Len(moods)
       THEN i' = i + 1 /\ pc' = "fetch"
       ELSE /\ i' = 0
            /\ pc' = CASE flow = "search" -> "aggregate"
                       [] flow = "repeat" -> "show"
                       [] OTHER -> "favshow"
    /\ UNCHANGED <<choice, flow, user_input, moods, radius_m, coords, combined_places>>

\* The call of fetch_overpass on a cached key: lines 131-135.
FetchHit ==
    /\ pc = "fetch"
    /\ CurrentKey \in DOMAIN CACHE
    /\ Return(fetch_hit(CACHE, CurrentKey))
    /\ attempt' = 0
    /\ requests' = 0
    /\ sleeps' = <<>>
    /\ UNCHANGED <<ops, hash_order, user_loc, shown, profileVars, cacheVars, geoVars>>

\* The call of fetch_overpass on a key not cached: lines 131-146.
FetchMiss ==
    /\ pc = "fetch"
    /\ CurrentKey \notin DOMAIN CACHE
    /\ pc' = "request"
    /\ attempt' = 1
    /\ requests' = 0
    /\ sleeps' = <<>>
    /\ UNCHANGED <<ops, hash_order, user_loc, shown, profileVars, cacheVars, geoVars,
                   handlerVars, ret>>

\* An attempt whose request succeeds: lines 148-151 and 159-170.
RequestOK ==
    /\ pc = "request"
    /\ \E elements \in ProviderResponses(moods[i]) :
        LET out == fetch_success(CACHE, CurrentKey, coords, elements)
        IN  /\ CACHE' = out.cache
            /\ Return(out.ret)
    /\ requests' = requests + 1
    /\ attempt' = 0
    /\ UNCHANGED <<ops, hash_order, user_loc, sleeps, shown, profileVars, cache_file,
                   geoVars>>

\* An attempt whose request raises RequestException: lines 152-155, and lines
\* 156-158 after the last attempt.
RequestFail ==
    /\ pc = "request"
    /\ requests' = requests + 1
    /\ IF attempt < FETCH_RETRIES
       THEN /\ sleeps' = Append(sleeps, Pow2(attempt))
            /\ attempt' = attempt + 1
            /\ UNCHANGED <<pc, CACHE, handlerVars, ret>>
       ELSE LET out == fetch_exhausted(CACHE, CurrentKey)
            IN  /\ CACHE' = out.cache
                /\ Return(out.ret)
                /\ attempt' = 0
                /\ UNCHANGED sleeps
    /\ UNCHANGED <<ops, hash_order, user_loc, shown, profileVars, cache_file, geoVars>>

(***************************************************************************)
(* Menu choice 1: recommendations                                          *)
(***************************************************************************)
\* Lines 298-310: the prompts, the moods, the radius.
ChosenMoods(text, tokens, order) ==
    LET auto_moods == detect_moods_from_text(text, order)
        selected == manual_mood_selection(MOODS, tokens, order)
    IN  IF selected = <<>> THEN auto_moods ELSE selected

RecommendWith(text, tokens, radius_input) ==
    /\ pc = "menu"
    /\ ops < MaxOps
    /\ user_input' = text
    /\ moods' = ChosenMoods(text, tokens, hash_order)
    /\ radius_m' = RadiusOf(radius_input)
    /\ ops' = ops + 1
    /\ choice' = "1"
    /\ flow' = "search"
    /\ coords' = user_loc
    /\ all_places' = <<>>
    /\ i' = 1
    /\ pc' = "fetch"
    /\ UNCHANGED <<hash_order, user_loc, sleeps, shown, profileVars, cacheVars, geoVars,
                   combined_places, fetchVars>>

Recommend ==
    \E text \in Texts, tokens \in Selections, radius_input \in RadiusInputs :
        RecommendWith(text, tokens, radius_input)

\* Lines 314-325: aggregation, then the table and the map, or "No places found".
\* The aggregation going on to the favorites loop without the history entry.
Aggregate_skips_history ==
    /\ pc = "aggregate"
    /\ combined_places' = Combine(all_places)
    /\ shown' = [flow |-> "search", places |-> combined_places']
    /\ i' = 1
    /\ pc' = "favorites"
    /\ UNCHANGED <<ops, hash_order, user_loc, sleeps, profileVars, cacheVars, geoVars,
                   choice, flow, user_input, moods, radius_m, coords, all_places,
                   fetchVars>>

\* profile.get of line 325 raises AttributeError when the profile is a list.
Aggregate ==
    /\ pc = "aggregate"
    /\ LET combined == Combine(all_places)
       IN  IF combined = <<>>
           THEN /\ pc' = "menu"
                /\ IdleHandler
                /\ IdleFetch
                /\ UNCHANGED <<shown, cache_file>>
           ELSE /\ combined_places' = combined
                /\ shown' = [flow |-> "search", places |-> combined]
                /\ IF IsList(profile)
                   THEN Traceback
                   ELSE pc' = "history" /\ UNCHANGED cache_file
                /\ UNCHANGED <<choice, flow, user_input, moods, radius_m, coords, i,
                               all_places, fetchVars, sleeps>>
    /\ UNCHANGED <<ops, hash_order, user_loc, profileVars, CACHE, geoVars>>

\* Lines 327-328: the history entry, appended and persisted. profile["history"]
\* of line 230 raises KeyError when the profile has no history.
AppendHistory ==
    /\ pc = "history"
    /\ IF "history" \in DOMAIN profile
       THEN LET history_entry == [input |-> user_input, detected_moods |-> moods,
                                  timestamp |-> clock]
            IN  /\ profile' = save_history(profile, history_entry)
                /\ profile_file' = save_user_profile(profile')
                /\ clock' = clock + 1
                /\ i' = 1
                /\ pc' = "favorites"
                /\ UNCHANGED cache_file
       ELSE /\ Traceback
            /\ UNCHANGED <<profile, profile_file, clock, i>>
    /\ UNCHANGED <<ops, hash_order, user_loc, sleeps, shown, CACHE, geoVars,
                   choice, flow, user_input, moods, radius_m, coords, all_places,
                   combined_places, fetchVars>>

\* Lines 330-337 for one mood of the loop.
AddFavorite ==
    /\ pc = "favorites"
    /\ i <= Len(moods)
    /\ profile' = UpdateFavorites(profile, moods[i], combined_places)
    /\ i' = i + 1
    /\ UNCHANGED <<pc, ops, hash_order, user_loc, sleeps, shown, profile_file, clock,
                   cacheVars, geoVars, choice, flow, user_input, moods, radius_m,
                   coords, all_places, combined_places, fetchVars>>

\* The end of the search without the save of line 339.
SaveProfile_forgotten ==
    /\ pc = "favorites"
    /\ i > Len(moods)
    /\ pc' = "menu"
    /\ IdleHandler
    /\ IdleFetch
    /\ shown' = NotShown
    /\ UNCHANGED <<ops, hash_order, user_loc, profileVars, cacheVars, geoVars>>

\* Line 339, after the loop.
SaveProfile ==
    /\ pc = "favorites"
    /\ i > Len(moods)
    /\ profile_file' = save_user_profile(profile)
    /\ pc' = "menu"
    /\ IdleHandler
    /\ IdleFetch
    /\ shown' = NotShown
    /\ UNCHANGED <<ops, hash_order, user_loc, profile, clock, cacheVars, geoVars>>

(***************************************************************************)
(* Menu choice 2: history                                                  *)
(***************************************************************************)
\* Lines 342-357. sel is the number typed, or -1 for an input that is no number.
\* profile.get of line 342 raises AttributeError when the profile is a list.
ViewHistory ==
    /\ pc = "menu"
    /\ ops < MaxOps
    /\ ops' = ops + 1
    /\ choice' = "2"
    /\ IF IsList(profile)
       THEN /\ Traceback
            /\ UNCHANGED <<flow, user_input, moods, radius_m, coords, i, all_places,
                           combined_places>>
       ELSE LET history == DictGet(profile, "history", <<>>)
            IN  /\ \E sel \in -1..(Len(history) + 1) :
                    IF history # <<>> /\ sel >= 0
                       /\ 0 <= sel - 1 /\ sel - 1 < Len(history)
                    THEN /\ flow' = "repeat"
                         /\ moods' = history[sel].detected_moods
                         /\ radius_m' = DEFAULT_SEARCH_RADIUS_M
                         /\ coords' = user_loc
                         /\ all_places' = <<>>
                         /\ IF moods' = <<>> THEN i' = 0 /\ pc' = "show"
                            ELSE i' = 1 /\ pc' = "fetch"
                         /\ UNCHANGED <<user_input, combined_places>>
                    ELSE /\ pc' = "loop"
                         /\ UNCHANGED <<flow, user_input, moods, radius_m, coords, i,
                                        all_places, combined_places>>
                /\ UNCHANGED cache_file
    /\ UNCHANGED <<hash_order, user_loc, sleeps, shown, profileVars, CACHE,
                   geoVars, fetchVars>>

\* Lines 360-361: the concatenated lists go to the table and the map.
ShowRepeated ==
    /\ pc = "show"
    /\ shown' = [flow |-> "repeat", places |-> all_places]
    /\ pc' = "loop"
    /\ UNCHANGED <<ops, hash_order, user_loc, sleeps, profileVars, cacheVars, geoVars,
                   handlerVars, fetchVars>>

(***************************************************************************)
(* Menu choice 3: favorites                                                *)
(***************************************************************************)
\* The numbers the user can type at the prompts of select_favorite_place.
FavoriteInputs == -1..2

\* Lines 364-370: the favorites menu, a removal, or the geocoding of the
\* selected favorite's name. profile.get of line 364 raises AttributeError when
\* the profile is a list.
ManageFavoritesWith(mood_choice, place_choice, rem_choice) ==
    /\ pc = "menu"
    /\ ops < MaxOps
    /\ ops' = ops + 1
    /\ choice' = "3"
    /\ IF IsList(profile)
       THEN /\ Traceback
            /\ UNCHANGED <<profile, profile_file, geoVars, sleeps, flow, user_input,
                           moods, radius_m, coords, i, all_places, combined_places>>
       ELSE IF DOMAIN profile.favorites = {}
       THEN /\ pc' = "loop"
            /\ UNCHANGED <<profile, profile_file, geoVars, sleeps, flow, user_input,
                           moods, radius_m, coords, i, all_places, combined_places,
                           cache_file>>
       ELSE LET out == select_favorite_place(profile.favorites, mood_choice,
                                             place_choice, rem_choice)
            IN  /\ IF out.removal = <<>>
                   THEN UNCHANGED <<profile, profile_file>>
                   ELSE /\ profile' = [profile EXCEPT !.favorites = out.removal[1].obj]
                        /\ profile_file' = IF out.removal[1].saved
                                           THEN save_user_profile(out.removal[1].obj)
                                           ELSE profile_file
                /\ IF out.sel = <<>>
                   THEN /\ pc' = "loop"
                        /\ UNCHANGED <<geoVars, sleeps, flow, user_input, moods,
                                       radius_m, coords, i, all_places,
                                       combined_places>>
                   ELSE /\ CallGeocode("favorite")
                        /\ flow' = "favorite"
                        /\ moods' = <<out.sel[1]>>
                        /\ UNCHANGED <<user_input, radius_m, coords, i, all_places,
                                       combined_places>>
                /\ UNCHANGED cache_file
    /\ UNCHANGED <<hash_order, user_loc, shown, clock, CACHE, fetchVars>>

ManageFavorites ==
    \E mood_choice \in FavoriteInputs, place_choice \in FavoriteInputs,
       rem_choice \in FavoriteInputs :
        ManageFavoritesWith(mood_choice, place_choice, rem_choice)

\* Lines 374-378: the places around the favorite, shown when there are any.
ShowFavorite ==
    /\ pc = "favshow"
    /\ shown' = IF all_places # <<>>
                THEN [flow |-> "favorite", places |-> all_places]
                ELSE shown
    /\ pc' = "loop"
    /\ UNCHANGED <<ops, hash_order, user_loc, sleeps, profileVars, cacheVars, geoVars,
                   handlerVars, fetchVars>>

\* The end of a loop iteration of main: back to the menu prompt.
BackToMenu ==
    /\ pc = "loop"
    /\ pc' = "menu"
    /\ shown' = NotShown
    /\ IdleHandler
    /\ IdleFetch
    /\ UNCHANGED <<ops, hash_order, user_loc, profileVars, cacheVars, geoVars>>

(***************************************************************************)
(* Menu choice 4: exit                                                     *)
(***************************************************************************)
\* Lines 383-385, and save_cache again at interpreter exit (line 58).
Exit ==
    /\ pc = "menu"
    /\ cache_file' = save_cache(CACHE)
    /\ choice' = "4"
    /\ pc' = "done"
    /\ UNCHANGED <<ops, hash_order, user_loc, sleeps, shown, profileVars, CACHE,
                   geoVars, flow, user_input, moods, radius_m, coords, i, all_places,
                   combined_places, fetchVars>>

\* Lines 387-388: any other input at the menu.
InvalidChoice ==
    /\ pc = "menu"
    /\ UNCHANGED vars

(***************************************************************************)
(* The next run of the program                                             *)
(***************************************************************************)
\* load_cache at import (line 59), then main up to the location prompt with
\* load_user_profile (line 282). The new process has its own string hash order.
Startup ==
    /\ pc = "done"
    /\ ops < MaxOps
    /\ ops' = ops + 1
    /\ hash_order' \in HashOrders
    /\ LET loaded == load_cache(cache_file)
       IN  /\ CACHE' = loaded.CACHE
           /\ IF loaded.raised
              THEN /\ pc' = "crashed"
                   /\ cache_file' = save_cache(loaded.CACHE)
                   /\ UNCHANGED profile
              ELSE /\ pc' = "start"
                   /\ profile' = load_user_profile(profile_file)
                   /\ UNCHANGED cache_file
    /\ user_loc' = <<>>
    /\ shown' = NotShown
    /\ IdleHandler
    /\ IdleFetch
    /\ UNCHANGED <<profile_file, clock, geoVars>>

Next ==
    \/ EnterLocation
    \/ GeocodeFound
    \/ GeocodeFail
    \/ Recommend
    \/ FetchHit
    \/ FetchMiss
    \/ RequestOK
    \/ RequestFail
    \/ Aggregate
    \/ AppendHistory
    \/ AddFavorite
    \/ SaveProfile
    \/ ViewHistory
    \/ ShowRepeated
    \/ ManageFavorites
    \/ ShowFavorite
    \/ BackToMenu
    \/ Exit
    \/ InvalidChoice
    \/ Startup

Spec == Init /\ [][Next]_vars

(***************************************************************************)
(* The history alone: searches that reach the append, one after the other. *)
(***************************************************************************)
HistoryInit ==
    /\ pc = "history"
    /\ choice = "1"
    /\ flow = "search"
    /\ ops = 0
    /\ hash_order \in HashOrders
    /\ clock = 0
    /\ profile_file = MissingFile
    /\ profile = load_user_profile(MissingFile)
    /\ CACHE = EmptyDict
    /\ cache_file = MissingFile
    /\ user_loc \in StartResults
    /\ g_for = "start"
    /\ g_attempt = 0
    /\ delay = 0
    /\ sleeps = <<>>
    /\ user_input \in Texts
    /\ \E tokens \in Selections : moods = ChosenMoods(user_input, tokens, hash_order)
    /\ radius_m = DEFAULT_SEARCH_RADIUS_M
    /\ coords = user_loc
    /\ i = 0
    /\ attempt = 0
    /\ requests = 0
    /\ ret = <<>>
    /\ all_places = <<>>
    /\ combined_places = <<>>
    /\ shown = NotShown

BoundedAppend == clock < MaxAppends /\ AppendHistory

\* From one append to the next search's append: the history is left alone.
NextSearch ==
    /\ pc = "favorites"
    /\ pc' = "history"
    /\ i' = 0
    /\ UNCHANGED <<ops, hash_order, user_loc, sleeps, shown, profileVars, cacheVars,
                   geoVars, choice, flow, user_input, moods, radius_m, coords,
                   all_places, combined_places, fetchVars>>

HistoryNext == BoundedAppend \/ NextSearch

SpecHistory == HistoryInit /\ [][HistoryNext]_vars

(***************************************************************************)
(* A start of the program on the files found on the disk: written by an    *)
(* earlier run, absent, or damaged.                                        *)
(***************************************************************************)
\* The profile a search for "happy" at the start location leaves.
WrittenProfile ==
    UpdateFavorites(
        save_history(EmptyProfile,
                     [input |-> [names |-> {}, polarity |-> 5],
                      detected_moods |-> <<"happy">>, timestamp |-> 0]),
        "happy", ParsePlaces(<<6, 200>>, World["happy"]))

\* A JSON object without the "history" key.
NoHistoryFile ==
    [exists |-> TRUE,
     content |-> [favorites |-> EmptyDict, mood_usage |-> EmptyDict,
                  place_usage |-> EmptyDict]]

ProfileFiles ==
    {MissingFile, UnparseableFile, ArrayFile, NoHistoryFile,
     save_user_profile(WrittenProfile)}

\* The cache that search leaves.
WrittenCache ==
    [k \in {cache_key(<<6, 200>>, "happy", DEFAULT_SEARCH_RADIUS_M)} |->
        ParsePlaces(<<6, 200>>, World["happy"])]

\* A JSON object whose key is the bare word home.
BareWordKeyFile ==
    [exists |-> TRUE,
     content |-> [s \in {<<[kind |-> "name", id |-> "home"]>>} |-> <<>>]]

\* A JSON object whose key is the text of a tuple of two floats: "(0.0001, 0.002)".
ShortKeyFile ==
    [exists |-> TRUE,
     content |-> [s \in {<<repr_float(10), repr_float(200)>>} |-> <<>>]]

CacheFiles ==
    {MissingFile, UnparseableFile, ArrayFile, BareWordKeyFile, ShortKeyFile,
     save_cache(WrittenCache)}

\* No process runs; the files are what the disk holds.
LoadInit ==
    /\ pc = "done"
    /\ choice = ""
    /\ flow = "none"
    /\ ops = 0
    /\ hash_order \in HashOrders
    /\ clock = 1
    /\ profile_file \in ProfileFiles
    /\ profile = EmptyProfile
    /\ CACHE = EmptyDict
    /\ cache_file \in CacheFiles
    /\ user_loc = <<>>
    /\ g_for = "start"
    /\ g_attempt = 0
    /\ delay = 0
    /\ sleeps = <<>>
    /\ user_input = [names |-> {}, polarity |-> 0]
    /\ moods = <<>>
    /\ radius_m = DEFAULT_SEARCH_RADIUS_M
    /\ coords = <<>>
    /\ i = 0
    /\ attempt = 0
    /\ requests = 0
    /\ ret = <<>>
    /\ all_places = <<>>
    /\ combined_places = <<>>
    /\ shown = NotShown

SpecLoad == LoadInit /\ [][Next]_vars

(***************************************************************************)
(* Properties                                                              *)
(***************************************************************************)
Names(s) == {s[n].name : n \in 1..Len(s)}

NoDuplicateNames(s) == \A a, b \in 1..Len(s) : s[a].name = s[b].name => a = b

AscendingByDistance(s) == \A n \in 1..(Len(s) - 1) : s[n].distance <= s[n + 1].distance

Locations == GeoResults \cup StartResults

\* Each coordinate differs by less than 0.0001 degree.
Close(c1, c2) == Abs(c1[1] - c2[1]) < 10 /\ Abs(c1[2] - c2[2]) < 10

SameRounded(c1, c2) == round4(c1[1]) = round4(c2[1]) /\ round4(c1[2]) = round4(c2[2])

Persisted == load_user_profile(profile_file) = profile

\* C1: when the request of a fetch fails on the third attempt as on the two
\* before, the fetch returns the empty list and leaves the cache as it was,
\* with no entry under the key; and a fetch called on a key that is not in the
\* cache goes to the provider.
C1_FailedFetchWritesNothing ==
    [][ /\ (attempt = FETCH_RETRIES /\ RequestFail) =>
              (ret' = <<>> /\ CACHE' = CACHE /\ CurrentKey \notin DOMAIN CACHE')
        /\ (pc = "fetch" /\ CurrentKey \notin DOMAIN CACHE) => pc' = "request" ]_vars

\* A fetch has just returned after three failed requests.
C1_Witness ==
    /\ pc = "aggregate"
    /\ Len(moods) = 1
    /\ requests = FETCH_RETRIES
    /\ sleeps = <<2, 4>>
    /\ ret = <<>>
    /\ cache_key(coords, moods[1], radius_m) \notin DOMAIN CACHE

\* C2: the history never holds more than MAX_HISTORY_SIZE entries; after more
\* than MAX_HISTORY_SIZE appends it holds exactly that many, and they are the
\* most recently appended ones in append order (the entry appended k-th carries
\* timestamp k - 1).
C2_HistoryKeepsNewest ==
    LET h == profile.history
    IN  /\ Len(h) <= MAX_HISTORY_SIZE
        /\ Len(h) = IF clock > MAX_HISTORY_SIZE THEN MAX_HISTORY_SIZE ELSE clock
        /\ \A n \in 1..Len(h) : h[n].timestamp = clock - Len(h) + n - 1

\* More than twice MAX_HISTORY_SIZE entries were appended.
C2_Witness ==
    /\ clock > 2 * MAX_HISTORY_SIZE
    /\ Len(profile.history) = MAX_HISTORY_SIZE
    /\ profile.history[1].timestamp = clock - MAX_HISTORY_SIZE

\* C3: the favorites under each mood hold at most one entry per place name, in
\* memory and in the profile file.
C3_OneFavoritePerName ==
    /\ \A m \in DOMAIN profile.favorites : NoDuplicateNames(profile.favorites[m])
    /\ \A m \in DOMAIN load_user_profile(profile_file).favorites :
          NoDuplicateNames(load_user_profile(profile_file).favorites[m])

\* A second search of a mood found its nearest place a favorite already, and
\* added the next one.
C3_Witness ==
    \E m \in DOMAIN profile.favorites :
        /\ Len(profile.favorites[m]) = 2
        /\ pc = "favorites"
        /\ combined_places # <<>>
        /\ profile.favorites[m][1].name = combined_places[1].name

\* C4 (as claimed): a removal chosen in the Manage Favorites flow leaves no
\* favorite of that name under that mood, in memory and in the profile file,
\* and leaves the other moods' favorites alone.
C4_RemovalRemoves ==
    [][ \A mood_choice \in FavoriteInputs, rem_choice \in FavoriteInputs :
          LET picked == PyIndex(DictKeys(profile.favorites), mood_choice - 1)
          IN  ( /\ mood_choice # 0
                /\ picked # <<>>
                /\ 1 <= rem_choice
                /\ rem_choice <= Len(profile.favorites[picked[1]])
                /\ ManageFavoritesWith(mood_choice, -1, rem_choice) )
              => LET mood == picked[1]
                     name == profile.favorites[mood][rem_choice].name
                 IN  /\ name \notin Names(profile'.favorites[mood])
                     /\ name \notin Names(DictGet(load_user_profile(profile_file').favorites,
                                                  mood, <<>>))
                     /\ \A m \in (DOMAIN profile.favorites) \ {mood} :
                           profile'.favorites[m] = profile.favorites[m] ]_vars

\* C5 (as claimed): every step that completes a history append, a usage
\* increment or a favorite insertion leaves the profile file equal to the
\* in-memory profile.
C5_EveryMutationPersisted ==
    [][ ( \/ profile'.history # profile.history
          \/ profile'.mood_usage # profile.mood_usage
          \/ profile'.place_usage # profile.place_usage )
        => load_user_profile(profile_file') = profile' ]_vars

\* C5 (amended): the profile file equals the in-memory profile whenever main
\* is not inside the favorites loop of a search, and the history is persisted
\* at all times.
C5_PersistedOutsideFavoritesLoop ==
    /\ pc # "favorites" => Persisted
    /\ load_user_profile(profile_file).history = profile.history

\* A search has added a favorite and counted it, and main is back at the menu.
C5_Witness ==
    /\ pc = "menu"
    /\ DOMAIN profile.mood_usage # {}
    /\ profile.history # <<>>
    /\ profile_file.exists

\* C6: the combined list holds every name of the per-mood lists exactly once,
\* each with an entry of the smallest distance of that name, in ascending order
\* of distance.
C6_CombinedIsDedupedUnion ==
    pc \in {"history", "favorites"} =>
        /\ Names(combined_places) = Names(all_places)
        /\ NoDuplicateNames(combined_places)
        /\ \A n \in 1..Len(combined_places) :
              /\ combined_places[n] \in Range(all_places)
              /\ \A k \in 1..Len(all_places) :
                    all_places[k].name = combined_places[n].name
                        => combined_places[n].distance <= all_places[k].distance
        /\ AscendingByDistance(combined_places)

\* The lists of two moods hold the same name, the later one nearer.
C6_Witness ==
    /\ pc = "history"
    /\ Len(moods) = 2
    /\ \E a, b \in 1..Len(all_places) :
          /\ a < b
          /\ all_places[a].name = all_places[b].name
          /\ all_places[b].distance < all_places[a].distance

\* C7 (as claimed): every list shown for a search or a repeated search has no
\* two entries of one name and is in ascending order of distance.
C7_ShownDedupedAndRanked ==
    shown.flow \in {"search", "repeat"} =>
        NoDuplicateNames(shown.places) /\ AscendingByDistance(shown.places)

\* C8 (as claimed): with an empty selection input the moods of the search are
\* the moods classified from the text.
C8_EmptySelectionUsesDetectedMoods ==
    [][ \A text \in Texts, radius_input \in RadiusInputs :
          RecommendWith(text, <<>>, radius_input)
              => moods' = detect_moods_from_text(text, hash_order) ]_vars

\* C9 (as claimed): a fetch at a location is a hit when the cache holds the
\* entry of a location less than 0.0001 degree away in each coordinate, for
\* the same mood and radius.
C9_CloseLocationsShareKey ==
    pc = "fetch" =>
        \A c1 \in Locations :
            (Close(c1, coords) /\ cache_key(c1, moods[i], radius_m) \in DOMAIN CACHE)
                => CurrentKey \in DOMAIN CACHE

\* C9 (amended): a successful fetch at a location stores its list under the
\* key of every location whose coordinates round to the same 4 decimals, for
\* the same mood and radius; an entry stays in the cache as stored; and a
\* fetch on a key in the cache issues no request.
C9_SameRoundingSharesKey ==
    [][ /\ (pc = "request" /\ CACHE' # CACHE) =>
              \A c2 \in Locations :
                  SameRounded(coords, c2) =>
                      /\ cache_key(c2, moods[i], radius_m) \in DOMAIN CACHE'
                      /\ CACHE'[cache_key(c2, moods[i], radius_m)] = ret'
        /\ \A k \in DOMAIN CACHE : k \in DOMAIN CACHE' /\ CACHE'[k] = CACHE[k]
        /\ (pc = "fetch" /\ CurrentKey \in DOMAIN CACHE) => pc' # "request" ]_vars

\* A fetch around a favorite is called at a location other than the session's,
\* rounding to the same key, and finds the list fetched for the session's.
C9_Witness ==
    /\ pc = "fetch"
    /\ flow = "favorite"
    /\ coords # user_loc
    /\ SameRounded(coords, user_loc)
    /\ CurrentKey \in DOMAIN CACHE
    /\ CACHE[CurrentKey] # <<>>
    /\ CACHE[CurrentKey] = ParsePlaces(user_loc, World[moods[i]])

\* C10: a fetch called on a key in the cache returns the list stored under the
\* key, sends no request and leaves the cache as it was.
C10_HitReturnsStoredList ==
    [][ (pc = "fetch" /\ CurrentKey \in DOMAIN CACHE) =>
            /\ ret' = CACHE[CurrentKey]
            /\ requests' = 0
            /\ pc' # "request"
            /\ CACHE' = CACHE ]_vars

\* A repeated search has just got a non-empty list from the cache.
C10_Witness ==
    /\ pc = "show"
    /\ Len(moods) = 1
    /\ requests = 0
    /\ ret # <<>>
    /\ cache_key(coords, moods[1], radius_m) \in DOMAIN CACHE
    /\ ret = CACHE[cache_key(coords, moods[1], radius_m)]

\* The file is absent or damaged: no JSON, or JSON of the wrong shape.
MissingOrCorruptProfileFile ==
    profile_file \in {MissingFile, UnparseableFile, ArrayFile, NoHistoryFile}

MissingOrCorruptCacheFile ==
    cache_file \in {MissingFile, UnparseableFile, ArrayFile, BareWordKeyFile, ShortKeyFile}

\* C11 (as claimed): a start of the program on a missing or corrupt profile
\* file leaves the empty default profile in memory, a start on a missing or
\* corrupt cache file leaves the empty cache in memory, and no exception
\* escapes, neither at the start nor in any later step of the session.
C11_CorruptFilesLoadAsEmpty ==
    [][ /\ pc' # "crashed"
        /\ (pc = "done" /\ pc' = "start" /\ MissingOrCorruptProfileFile)
              => profile' = EmptyProfile
        /\ (pc = "done" /\ pc' # "done" /\ MissingOrCorruptCacheFile)
              => CACHE' = EmptyDict ]_vars

\* C12 (as claimed): retry_geocode makes at most GEOCODE_RETRIES attempts; an
\* attempt that finds the location hands its coordinates to the caller with no
\* further attempt and no wait; a failed attempt before the last is followed by
\* a wait of 2, 4, 8, 16 seconds and the next attempt; the last failed attempt
\* returns None to the caller, with no exception and no further wait.
C12_GeocodeRetriesAndWaits ==
    [][ pc = "geocode" =>
          /\ g_attempt \in 1..GEOCODE_RETRIES
          /\ pc' \in {"geocode", "menu", "fetch", "start", "loop"}
          /\ pc' = "geocode" =>
                /\ g_attempt < GEOCODE_RETRIES
                /\ g_attempt' = g_attempt + 1
                /\ sleeps' = Append(sleeps, <<2, 4, 8, 16>>[g_attempt])
          /\ pc' = "menu" => user_loc' \in StartResults /\ sleeps' = sleeps
          /\ pc' = "fetch" => coords' \in GeoResults /\ sleeps' = sleeps
          /\ pc' \in {"start", "loop"} =>
                /\ g_attempt = GEOCODE_RETRIES
                /\ sleeps' = sleeps ]_vars

\* C13: every key of the cache maps to a list that is in ascending order of
\* distance and holds exactly the places of one successful response to the
\* key's query: every element of the response that has a coordinate, once.
C13_CacheEntriesCompleteAndSorted ==
    \A k \in DOMAIN CACHE :
        /\ AscendingByDistance(CACHE[k])
        /\ \E c \in Locations, elements \in ProviderResponses(k[3]) :
              /\ cache_key(c, k[3], k[4]) = k
              /\ Len(CACHE[k]) = Len(PlacesOf(c, elements))
              /\ Range(CACHE[k]) = Range(PlacesOf(c, elements))

\* A fetch got its response at the third attempt, after two failures, and
\* stored the two places of the response in another order than the provider's.
C13_Witness ==
    /\ pc = "aggregate"
    /\ Len(moods) = 1
    /\ requests = FETCH_RETRIES
    /\ sleeps = <<2, 4>>
    /\ cache_key(coords, moods[1], radius_m) \in DOMAIN CACHE
    /\ CACHE[cache_key(coords, moods[1], radius_m)] = ret
    /\ Len(ret) = 2
    /\ ret # PlacesOf(coords, World[moods[1]])

\* C14: the list a successful fetch stores under its key is the list it
\* returns; a key of the cache keeps its list in every step of the session,
\* and a fetch on the key returns that list; and the start of the next run,
\* after the exit wrote the cache file, loads without an exception a cache
\* with the same keys and the same list under each.
C14_StoredIsLookedUp ==
    [][ /\ (pc = "request" /\ CACHE' # CACHE) =>
              CurrentKey \in DOMAIN CACHE' /\ CACHE'[CurrentKey] = ret'
        /\ \A k \in DOMAIN CACHE : k \in DOMAIN CACHE' /\ CACHE'[k] = CACHE[k]
        /\ (pc = "fetch" /\ CurrentKey \in DOMAIN CACHE) => ret' = CACHE[CurrentKey]
        /\ (pc = "done" /\ pc' # "done") =>
              pc' = "start" /\ DOMAIN CACHE' = DOMAIN CACHE ]_vars

\* The next run has loaded the cache file the exit wrote, with a key whose
\* list is not empty.
C14_Witness ==
    /\ pc = "start"
    /\ cache_file.exists
    /\ \E k \in DOMAIN CACHE :
          /\ CACHE[k] # <<>>
          /\ str(k) \in DOMAIN cache_file.content
          /\ cache_file.content[str(k)] = CACHE[k]
          /\ eval(str(k)) = k

\* C15: no step of a session (search, history view and repeated search,
\* favorites management, exit, restart) removes a key of mood_usage or of
\* place_usage or lowers its count.
C15_UsageCountsNeverDecrease ==
    [][ /\ \A m \in DOMAIN profile.mood_usage :
              /\ m \in DOMAIN profile'.mood_usage
              /\ profile'.mood_usage[m] >= profile.mood_usage[m]
        /\ \A n \in DOMAIN profile.place_usage :
              /\ n \in DOMAIN profile'.place_usage
              /\ profile'.place_usage[n] >= profile.place_usage[n] ]_vars

\* Two searches counted a mood twice and a place each, and main is back at
\* the menu.
C15_Witness ==
    /\ pc = "menu"
    /\ \E m \in DOMAIN profile.mood_usage : profile.mood_usage[m] = 2
    /\ Cardinality(DOMAIN profile.place_usage) = 2

\* The moods the tokens of a selection name, in the order typed, each once.
RECURSIVE TypedOrder(_, _)
TypedOrder(tokens, picked) ==
    IF tokens = <<>> THEN picked
    ELSE LET one == SelectedSet(<<Head(tokens)>>, MOODS)
         IN  TypedOrder(Tail(tokens),
                        IF one = {} \/ one \subseteq Range(picked) THEN picked
                        ELSE Append(picked, CHOOSE m \in one : TRUE))

\* C16 (as claimed): the mood list of a search whose selection names a mood is
\* the selected moods in the order the user typed them, whatever the hash
\* order of the process; the fetches of the search are called for the moods of
\* that list from the first to the last; and the history entry of the search
\* holds that list as detected_moods.
C16_FetchesInSelectionOrder ==
    [][ /\ \A text \in Texts, tokens \in Selections, radius_input \in RadiusInputs :
              (RecommendWith(text, tokens, radius_input) /\ TypedOrder(tokens, <<>>) # <<>>)
                  => moods' = TypedOrder(tokens, <<>>)
        /\ (flow = "search" /\ pc \in {"fetch", "request"} /\ pc' \in {"fetch", "request"})
              => moods' = moods /\ i' \in {i, i + 1}
        /\ (flow = "search" /\ pc \in {"fetch", "request"} /\ pc' = "aggregate")
              => i = Len(moods)
        /\ (pc = "history" /\ pc' = "favorites")
              => profile'.history[Len(profile'.history)].detected_moods = moods ]_vars

\* The stages of a search follow each other: the aggregation after the fetch
\* of the last mood, the history append after the aggregation, one entry per
\* append, the favorites loop after the append, and the return to the menu
\* after the favorites loop; the history changes in the append only and the
\* favorites in the favorites loop only.
SearchStagesInOrder ==
    /\ (pc' = "aggregate" /\ pc # "aggregate")
          => pc \in {"fetch", "request"} /\ flow = "search" /\ i = Len(moods)
    /\ (pc' = "history" /\ pc # "history") => pc = "aggregate"
    /\ pc = "history"
          => /\ pc' = "favorites"
             /\ Len(profile'.history) = Len(profile.history) + 1
             /\ SubSeq(profile'.history, 1, Len(profile.history)) = profile.history
             /\ profile'.favorites = profile.favorites
    /\ profile'.history # profile.history => pc = "history"
    /\ (pc' = "favorites" /\ pc # "favorites") => pc = "history"
    /\ (flow = "search" /\ profile'.favorites # profile.favorites)
          => pc = "favorites" /\ pc' = "favorites"
    /\ pc = "favorites" => pc' \in {"favorites", "menu"}

\* C17 (as claimed): every search runs through fetch, aggregation, history
\* append and favorites loop in that order and returns to the menu from the
\* favorites loop only, so that each search has appended one history entry.
C17_EverySearchAppendsHistory ==
    [][ /\ SearchStagesInOrder
        /\ (flow = "search" /\ pc' = "menu") => pc = "favorites" ]_vars

\* C17 (amended): the stages follow each other in that order; a search whose
\* combined list is not empty goes on to the history append, and a search
\* whose combined list is empty returns to the menu from the aggregation with
\* the profile and the profile file as they were.
C17_SearchWithPlacesAppendsHistory ==
    [][ /\ SearchStagesInOrder
        /\ (pc = "aggregate" /\ Combine(all_places) # <<>>) => pc' = "history"
        /\ (flow = "search" /\ pc' = "menu") =>
              \/ pc = "favorites"
              \/ /\ pc = "aggregate"
                 /\ Combine(all_places) = <<>>
                 /\ profile' = profile
                 /\ profile_file' = profile_file ]_vars

\* A search has fetched for its moods and found no place, after an earlier
\* search that was recorded and added a favorite.
C17_Witness ==
    /\ pc = "aggregate"
    /\ flow = "search"
    /\ Combine(all_places) = <<>>
    /\ Len(profile.history) = 1
    /\ DOMAIN profile.favorites # {}

\* C18: a fetch that misses the cache sends at most FETCH_RETRIES requests,
\* one per attempt; a request that fails before the last attempt is followed
\* by a wait of 2 ** attempt seconds (2, then 4) and the next attempt; a
\* request that succeeds, or fails at the last attempt, ends the call with no
\* wait and no further request, and the call returns a list to its caller:
\* the empty list after the last failure.
C18_FetchRetriesAndWaits ==
    [][ pc = "request" =>
          /\ attempt \in 1..FETCH_RETRIES
          /\ requests = attempt - 1
          /\ requests' = requests + 1
          /\ pc' \in {"request", "fetch", "aggregate", "show", "favshow"}
          /\ pc' = "request" =>
                /\ attempt < FETCH_RETRIES
                /\ attempt' = attempt + 1
                /\ sleeps' = Append(sleeps, <<2, 4>>[attempt])
                /\ CACHE' = CACHE
          /\ pc' # "request" =>
                /\ sleeps' = sleeps
                /\ CACHE' # CACHE \/ (attempt = FETCH_RETRIES /\ ret' = <<>>) ]_vars

\* A fetch got its places at the second attempt, after one failure and one
\* wait of 2 seconds.
C18_Witness ==
    /\ pc = "aggregate"
    /\ Len(moods) = 1
    /\ requests = 2
    /\ sleeps = <<2>>
    /\ ret # <<>>
    /\ cache_key(coords, moods[1], radius_m) \in DOMAIN CACHE

\* C19: a step adds a key to the cache exactly when it is a request that
\* succeeds: the key of the fetch was absent and now maps to the list the
\* fetch returns, the empty list when the response holds no usable place; a
\* key that maps to the empty list keeps it, and a fetch on such a key returns
\* the empty list without a request.
C19_EntryWrittenOnSuccessOnly ==
    [][ /\ RequestOK =>
              /\ CurrentKey \notin DOMAIN CACHE
              /\ CurrentKey \in DOMAIN CACHE'
              /\ CACHE'[CurrentKey] = ret'
        /\ DOMAIN CACHE' # DOMAIN CACHE => RequestOK
        /\ \A k \in DOMAIN CACHE :
              CACHE[k] = <<>> => k \in DOMAIN CACHE' /\ CACHE'[k] = <<>>
        /\ (pc = "fetch" /\ CurrentKey \in DOMAIN CACHE /\ CACHE[CurrentKey] = <<>>)
              => ret' = <<>> /\ requests' = 0 /\ pc' # "request" /\ CACHE' = CACHE ]_vars

\* A second search has just got the empty list of an earlier successful
\* request from the cache, with no request of its own.
C19_Witness ==
    /\ pc = "aggregate"
    /\ Len(moods) = 1
    /\ requests = 0
    /\ ret = <<>>
    /\ cache_key(coords, moods[1], radius_m) \in DOMAIN CACHE
    /\ CACHE[cache_key(coords, moods[1], radius_m)] = <<>>

\* The sum of the counts of a usage dict.
RECURSIVE SumOver(_, _)
SumOver(d, keys) ==
    IF keys = {} THEN 0
    ELSE LET k == CHOOSE x \in keys : TRUE
         IN  d[k] + SumOver(d, keys \ {k})

SumOf(d) == SumOver(d, DOMAIN d)

\* The positions of combined_places whose place matches the mood's tags and is
\* no favorite of the mood.
NewMatches(mood) ==
    {n \in 1..Len(combined_places) :
        /\ MoodInPlace(combined_places[n].tags, mood)
        /\ combined_places[n].name \notin Names(DictGet(profile.favorites, mood, <<>>))}

\* C20: the pass of the favorites loop for a mood leaves the favorites of the
\* other moods alone; when no place of the combined list matches the mood's
\* tags without being a favorite of the mood already, it adds nothing and
\* counts nothing; otherwise it appends one favorite, the first and so the
\* nearest such place, and adds one to mood_usage of the mood and one to
\* place_usage of the place's name, leaving the other counts alone. Nothing
\* else changes a count, and the counts of mood_usage and of place_usage have
\* the same sum.
C20_OneFavoritePerMoodCounted ==
    [][ /\ IF pc = "favorites" /\ i <= Len(moods)
           THEN LET mood == moods[i]
                    fav_list == DictGet(profile.favorites, mood, <<>>)
                IN  /\ \A m \in DOMAIN profile.favorites :
                          m # mood => profile'.favorites[m] = profile.favorites[m]
                    /\ IF NewMatches(mood) = {}
                       THEN /\ profile'.favorites[mood] = fav_list
                            /\ profile'.mood_usage = profile.mood_usage
                            /\ profile'.place_usage = profile.place_usage
                       ELSE LET n == CHOOSE x \in NewMatches(mood) :
                                         \A y \in NewMatches(mood) : x <= y
                                place == combined_places[n]
                            IN  /\ \A y \in NewMatches(mood) :
                                      place.distance <= combined_places[y].distance
                                /\ profile'.favorites[mood] =
                                      Append(fav_list, [name |-> place.name,
                                                        tags |-> place.tags])
                                /\ profile'.mood_usage =
                                      DictSet(profile.mood_usage, mood,
                                              DictGet(profile.mood_usage, mood, 0) + 1)
                                /\ profile'.place_usage =
                                      DictSet(profile.place_usage, place.name,
                                              DictGet(profile.place_usage, place.name, 0) + 1)
           ELSE /\ profile'.mood_usage = profile.mood_usage
                /\ profile'.place_usage = profile.place_usage
        /\ SumOf(profile'.mood_usage) = SumOf(profile'.place_usage) ]_vars

\* The pass for a mood has skipped the nearest matching place, a favorite of
\* the mood since an earlier search, and added and counted the next one.
C20_Witness ==
    /\ pc = "favorites"
    /\ i = 2
    /\ Len(moods) = 1
    /\ Len(profile.favorites[moods[1]]) = 2
    /\ profile.favorites[moods[1]][2].name # combined_places[1].name
    /\ profile.mood_usage[moods[1]] = 2
    /\ SumOf(profile.place_usage) = 2

====
